---- MODULE Spec2Model ----
(***************************************************************************)
(* TxFlash: transactional storage of one configuration blob in two flash   *)
(* banks (src/include/txflash.hh) over DummyFlashBank<EmptyValue>          *)
(* (src/include/txflash_dummy.hh).                                         *)
(*                                                                         *)
(* Every bank operation that changes flash is one step: an erase of a      *)
(* whole bank, or the programming of one byte of a write_chunk.  Power can *)
(* be lost between any two steps; the next step is then the construction   *)
(* of a new engine over the bank contents that are left.                   *)
(***************************************************************************)
EXTENDS Integers, Sequences, FiniteSets, TLC

\* ---------------------------------------------------------------- bounds
BankLen == 8
MaxPowerLoss == 2

\* ------------------------------------------------------ program constants
sizeL == 2
ByteMod == 256
PosMod == 65536
BANK0 == 0
BANK1 == 1

VARIABLES
    bank0, bank1,            \* flash contents: position -> byte
    empty_value,             \* Bank::empty_value (template parameter)
    m_default_payload,       \* the default payload (its length is Len)
    m_read_bank, m_write_bank,
    m_read_position, m_write_position,
    pc,                      \* position of the program
    k,                       \* index of the next byte of the chunk in progress
    payload,                 \* argument of the write() in progress
    stack,                   \* target banks of the write() calls waiting for a nested write()
    op,                      \* top-level operation in progress or last completed
    result,                  \* what the last write() returned: "true", "false"; "none" before
    log,                     \* bank operations issued by the top-level operation
    boot,                    \* what the last construction's parse() saw and returned
    dest,                    \* what the last length() returned and the last read() copied
    pre,                     \* what was current when the last API write() was called
    committed,               \* payload of the last outermost write() that returned true
    newest,                  \* bank of the last record header programmed, and whether
                             \* the write() that programmed it has yet to return
    powerlosses,             \* number of power losses so far
    crashed                  \* operation the last power loss came after ("none" if idle)

flash == <<bank0, bank1, empty_value>>
cursors == <<m_read_bank, m_write_bank, m_read_position, m_write_position>>
control == <<pc, k, payload, stack, op, result>>
ghost == <<log, boot, dest, pre, committed, newest, powerlosses, crashed>>
vars == <<flash, m_default_payload, cursors, control, ghost>>

\* ------------------------------------------------------------- the banks
Fill(n, b) == [i \in 1..n |-> b]

Min(a, b) == IF a < b THEN a ELSE b

\* Header::EMPTY
EMPTY == empty_value

\* mutant: the record header is E with its lowest-order bit flipped
RECORD_low_bit_flipped ==
    IF empty_value % 2 = 1 THEN empty_value - 1 ELSE empty_value + 1

\* Header::RECORD, Header::SWITCH: (uint8_t)((uint16_t) empty_value + 1), + 2
RECORD == (empty_value + 1) % ByteMod
SWITCH == (empty_value + 2) % ByteMod

\* DummyFlashBank::length of each bank: the size of its buffer
Bank0Len == Cardinality(DOMAIN bank0)
Bank1Len == Cardinality(DOMAIN bank1)
length_of(bank) == IF bank = BANK0 THEN Bank0Len ELSE Bank1Len

\* DummyFlashBank::erase: memset(m_flash, EmptyValue, length())
erased(bank) == [i \in 0..(length_of(bank) - 1) |-> empty_value]

\* DummyFlashBank::write_chunk, one byte of its memcpy
program(data, position, byte) == [data EXCEPT ![position] = byte]

\* DummyFlashBank::read_chunk of one byte; a position outside the buffer has
\* no defined value and reads as -1 here
peek(data, position) ==
    IF position \in DOMAIN data THEN data[position] ELSE -1

data_of(bank) == IF bank = BANK0 THEN bank0 ELSE bank1

\* mutant: the position is not subtracted
remaining_of_whole_bank(bank, position) == length_of(bank) % PosMod

\* TxFlash::remaining
remaining(bank, position) == (length_of(bank) - position) % PosMod

\* mutant: no room kept for the next header
required_without_terminator(length) == 1 + sizeL + length

\* 1 /* header */ + sizeof(position_t) /* length */ + length + 1 /* next header */
required(length) == 1 + sizeL + length + 1

\* mutant: the length is stored high byte first
length_byte_big_endian(length, i) ==
    IF i = 0 THEN (length \div ByteMod) % ByteMod ELSE length % ByteMod

\* byte i of a position_t in memory (little-endian host)
length_byte(length, i) == IF i = 0 THEN length % ByteMod ELSE (length \div ByteMod) % ByteMod

\* read_chunk(bank, position, &length, sizeof(position_t))
read_length(data, position) ==
    IF position + 1 \in DOMAIN data
    THEN data[position] + ByteMod * data[position + 1]
    ELSE -1

\* --------------------------------------------------------- recovery scan
\* mutant: the scan stops at the first record whatever header follows it
fast_forward_stops_at_first(bank, data, rp, wp) ==
    IF remaining(bank, rp) < 1 + sizeL + 1
    THEN [state |-> "INVALID", rp |-> rp, wp |-> wp]
    ELSE LET length == read_length(data, rp + 1)
             next == (rp + 1 + sizeL + length) % PosMod
         IN IF remaining(bank, rp) < required(length)
            THEN [state |-> "INVALID", rp |-> rp, wp |-> wp]
            ELSE IF peek(data, next) \in {EMPTY, RECORD}
                 THEN [state |-> "VALID", rp |-> rp, wp |-> next]
                 ELSE [state |-> "INVALID", rp |-> rp, wp |-> next]

\* mutant: the write position is left behind the EMPTY byte that ends the scan
RECURSIVE fast_forward_skips_terminator(_, _, _, _)
fast_forward_skips_terminator(bank, data, rp, wp) ==
    IF remaining(bank, rp) < 1 + sizeL + 1
    THEN [state |-> "INVALID", rp |-> rp, wp |-> wp]
    ELSE LET length == read_length(data, rp + 1)
             next == (rp + 1 + sizeL + length) % PosMod
         IN IF remaining(bank, rp) < required(length)
            THEN [state |-> "INVALID", rp |-> rp, wp |-> wp]
            ELSE IF peek(data, next) = EMPTY
                 THEN [state |-> "VALID", rp |-> rp, wp |-> next + 1]
                 ELSE IF peek(data, next) # RECORD
                      THEN [state |-> "INVALID", rp |-> rp, wp |-> next]
                      ELSE fast_forward_skips_terminator(bank, data, next, next)

\* TxFlash::fast_forward on the bank contents data, from read position rp with
\* write position wp: the state returned and the cursors it leaves
RECURSIVE fast_forward(_, _, _, _)
fast_forward(bank, data, rp, wp) ==
    IF remaining(bank, rp) < 1 + sizeL + 1
    THEN [state |-> "INVALID", rp |-> rp, wp |-> wp]
    ELSE LET length == read_length(data, rp + 1)
             next == (rp + 1 + sizeL + length) % PosMod
         IN IF remaining(bank, rp) < required(length)
            THEN [state |-> "INVALID", rp |-> rp, wp |-> wp]
            ELSE IF peek(data, next) = EMPTY
                 THEN [state |-> "VALID", rp |-> rp, wp |-> next]
                 ELSE IF peek(data, next) # RECORD
                      THEN [state |-> "INVALID", rp |-> rp, wp |-> next]
                      ELSE fast_forward(bank, data, next, next)

\* mutant: two RECORD headers select bank 0
select_bank0_on_tie(headerBank0, headerBank1) ==
    IF headerBank0 = EMPTY /\ headerBank1 = EMPTY THEN "EMPTY"
    ELSE IF headerBank0 = EMPTY /\ headerBank1 = RECORD THEN "BANK1"
    ELSE IF headerBank0 = RECORD /\ headerBank1 \in {EMPTY, RECORD} THEN "BANK0"
    ELSE "INVALID"

\* the if/else chain of TxFlash::parse: the bank to scan, or "EMPTY"/"INVALID"
select(headerBank0, headerBank1) ==
    IF headerBank0 = EMPTY /\ headerBank1 = EMPTY THEN "EMPTY"
    ELSE IF headerBank0 = EMPTY /\ headerBank1 = RECORD THEN "BANK1"
    ELSE IF headerBank0 = RECORD /\ headerBank1 = EMPTY THEN "BANK0"
    ELSE IF headerBank0 = RECORD /\ headerBank1 = RECORD THEN "BANK1"
    ELSE "INVALID"

\* TxFlash::parse over the bank contents d0, d1: the state returned, the
\* cursors it leaves (both banks are bank) and the bank fast_forward ran on
parse(d0, d1) ==
    LET headerBank0 == peek(d0, 0)
        headerBank1 == peek(d1, 0)
        sel == select(headerBank0, headerBank1)
    IN IF sel \in {"EMPTY", "INVALID"}
       THEN [state |-> sel, scanned |-> "none", bank |-> BANK0, rp |-> 0, wp |-> 0]
       ELSE LET bank == IF sel = "BANK1" THEN BANK1 ELSE BANK0
                ff == fast_forward(bank, IF bank = BANK0 THEN d0 ELSE d1, 0, 0)
            IN [state |-> ff.state, scanned |-> sel, bank |-> bank,
                rp |-> ff.rp, wp |-> ff.wp]

\* ------------------------------------------------------------- length, read
\* TxFlash::length with the read cursor at (bank, position)
length_at(d0, d1, bank, position) ==
    read_length(IF bank = BANK0 THEN d0 ELSE d1, position + 1)

\* TxFlash::read with the read cursor at (bank, position): the bytes copied
\* to the destination; <<-1>> when the copy leaves the bank
read_at(d0, d1, bank, position) ==
    LET data == IF bank = BANK0 THEN d0 ELSE d1
        length == length_at(d0, d1, bank, position)
        from == position + 1 + sizeL
    IN IF length < 0 \/ from + length > length_of(bank)
       THEN <<-1>>
       ELSE [i \in 1..length |-> data[from + i - 1]]

length == length_at(bank0, bank1, m_read_bank, m_read_position)
read == read_at(bank0, bank1, m_read_bank, m_read_position)

\* ------------------------------------------------------------ the inputs
\* payloads handed to write(): two of length 1, one that leaves room for a
\* second record, the longest that fits and one that is one byte too long
MaxFit == BankLen - sizeL - 2
Payloads == { <<>>, <<1>>, <<255>>, <<0, 255>>, Fill(MaxFit, 1), Fill(MaxFit + 1, 0) }

\* default payloads handed to the constructor: empty, one byte, too long
Defaults == { <<>>, <<33>>, Fill(MaxFit + 1, 33) }

\* a bank that holds the bytes of prefix from position 0 and is erased after
Image(e, prefix) ==
    [i \in 0..(BankLen - 1) |-> IF i < Len(prefix) THEN prefix[i + 1] ELSE e]

\* bank contents found at the first construction, for erased value e: erased;
\* every byte the complement of e; one record; two records; an illegal header;
\* an erased byte 0 before programmed bytes; a length that overruns the bank;
\* a record followed by a byte that is no header
Images(e) ==
    LET R == (e + 1) % ByteMod
        X == (e + 2) % ByteMod
        N == 255 - e
    IN { Image(e, <<>>),
         Image(e, Fill(BankLen, N)),
         Image(e, <<R, 1, 0, 34>>),
         Image(e, <<R, 0, 0, R, 1, 0, 35>>),
         Image(e, <<X>>),
         Image(e, <<e, N, N, N, N>>),
         Image(e, <<R, 9, 9>>),
         Image(e, <<R, 1, 0, 34, X>>) }

NoPayload == <<-1>>
NoBoot == [h0 |-> -1, h1 |-> -1, state |-> "none", scanned |-> "none",
          other |-> "none"]
NoDest == [length |-> -1, data |-> NoPayload]
NoNewest == [bank |-> -1, open |-> FALSE]
NoPre == [rec |-> NoPayload, len |-> -1, cursors |-> <<0, 0, 0, 0>>,
          header |-> -1, payload |-> NoPayload]

\* newest after an erase of bank: the header it names may be gone
forget(bank) == IF newest.bank = bank THEN NoNewest ELSE newest

\* log entries
Erase(bank) == [call |-> "erase", bank |-> bank, position |-> 0, n |-> 0]
WriteChunk(bank, position, n) ==
    [call |-> "write_chunk", bank |-> bank, position |-> position, n |-> n]

\* ------------------------------------------------------------------ Init
\* the engine is not constructed yet; the banks hold what the device was
\* shipped or last left with
InitWith(e, i0, i1, d) ==
    /\ empty_value = e
    /\ bank0 = i0
    /\ bank1 = i1
    /\ m_default_payload = d
    /\ m_read_bank = BANK0 /\ m_write_bank = BANK0
    /\ m_read_position = 0 /\ m_write_position = 0
    /\ pc = "off" /\ k = 0 /\ payload = <<>> /\ stack = <<>>
    /\ op = "none" /\ result = "none"
    /\ log = <<>> /\ boot = NoBoot /\ dest = NoDest /\ pre = NoPre /\ committed = NoPayload
    /\ newest = NoNewest
    /\ powerlosses = 0 /\ crashed = "none"

Init ==
    \E e \in {0, 255} : \E i0 \in Images(e) : \E i1 \in Images(e) :
        \E d \in Defaults : InitWith(e, i0, i1, d)

\* two freshly erased banks
InitFresh ==
    \E e \in {0, 255} : \E d \in Defaults :
        InitWith(e, Image(e, <<>>), Image(e, <<>>), d)

\* --------------------------------------------------------------- actions
\* mutant: nothing is written to empty flash
dispatch_ignores_empty(state) ==
    IF state = "INVALID" THEN "r_erase0" ELSE "idle"

\* mutant: empty flash is reset
dispatch_resets_on_empty(state) ==
    IF state \in {"INVALID", "EMPTY"} THEN "r_erase0" ELSE "idle"

\* mutant: invalid flash gets the default written without a reset
dispatch_writes_on_invalid(state) ==
    IF state \in {"INVALID", "EMPTY"} THEN "w_enter" ELSE "idle"

\* the switch of TxFlash::initialize: where the constructor goes on
dispatch(state) ==
    IF state = "INVALID" THEN "r_erase0"
    ELSE IF state = "EMPTY" THEN "w_enter"
    ELSE "idle"

\* what a scan of the bank that parse() did not select would have returned
scan_other(scanned) ==
    IF scanned = "BANK1" THEN fast_forward(BANK0, bank0, 0, 0).state
    ELSE IF scanned = "BANK0" THEN fast_forward(BANK1, bank1, 0, 0).state
    ELSE "none"

\* TxFlash::TxFlash, TxFlash::initialize: parse() and the switch on its state
Construct ==
    /\ pc = "off"
    /\ LET p == parse(bank0, bank1)
       IN /\ m_read_bank' = p.bank
          /\ m_write_bank' = p.bank
          /\ m_read_position' = p.rp
          /\ m_write_position' = p.wp
          /\ boot' = [h0 |-> peek(bank0, 0), h1 |-> peek(bank1, 0),
                      state |-> p.state, scanned |-> p.scanned,
                      other |-> scan_other(p.scanned)]
          /\ pc' = dispatch(p.state)
          /\ payload' = IF dispatch(p.state) = "w_enter" THEN m_default_payload ELSE <<>>
    /\ op' = "construct"
    /\ k' = 0 /\ stack' = <<>> /\ result' = "none" /\ log' = <<>>
    /\ dest' = NoDest
    /\ UNCHANGED <<flash, m_default_payload, pre, committed, newest, powerlosses, crashed>>

\* a caller invokes write(P, Len(P)) on the constructed engine, P one of S
WriteCallOf(S) ==
    /\ pc = "idle"
    /\ \E P \in S :
        /\ payload' = P
        /\ pre' = [rec |-> read, len |-> length, cursors |-> cursors,
                   header |-> peek(data_of(m_read_bank), m_read_position),
                   payload |-> P]
    /\ pc' = "w_enter"
    /\ op' = "write"
    /\ k' = 0 /\ stack' = <<>> /\ result' = "none" /\ log' = <<>>
    /\ boot' = NoBoot /\ dest' = NoDest /\ crashed' = "none"
    /\ UNCHANGED <<flash, m_default_payload, cursors, committed, newest, powerlosses>>

WriteCall == WriteCallOf(Payloads)

\* mutant: bank 1 is never erased after the move to bank 0
unwind_never_erases(st, r) == [pc |-> "idle", stack |-> <<>>]

\* where a write() that returns r goes on: each waiting caller of the
\* ping-pong branch gets r; the one that moved to BANK0 erases bank 1 first
RECURSIVE unwind(_, _)
unwind(st, r) ==
    IF st = <<>> THEN [pc |-> "idle", stack |-> <<>>]
    ELSE IF Head(st) = BANK0 /\ r THEN [pc |-> "w_erase_stale", stack |-> Tail(st)]
    ELSE unwind(Tail(st), r)

Return(r) ==
    LET u == unwind(stack, r)
    IN /\ pc' = u.pc
       /\ stack' = u.stack
       /\ result' = IF r THEN "true" ELSE "false"
       /\ committed' = IF u.pc = "idle" /\ r THEN payload ELSE committed
       /\ newest' = IF pc = "w_header"
                    THEN [bank |-> m_write_bank, open |-> u.pc # "idle"]
                    ELSE IF pc = "w_erase_stale"
                         THEN [newest EXCEPT !.open = FALSE]
                         ELSE newest

\* mutant: the write position is taken back to 0 before the capacity check
WriteRejectAfterRewind ==
    /\ m_write_position' = 0
    /\ Return(FALSE)
    /\ UNCHANGED <<flash, m_read_bank, m_write_bank, m_read_position, k, log>>

\* write(): "Payload exceeds bank size", return false
WriteReject ==
    /\ Return(FALSE)
    /\ UNCHANGED <<flash, cursors, k, log>>

\* mutant: a payload of no bytes is accepted without a record being written
WriteAppendSkipsEmpty ==
    IF Len(payload) = 0
    THEN /\ Return(TRUE)
         /\ UNCHANGED <<flash, cursors, k, log>>
    ELSE /\ pc' = "w_length"
         /\ k' = 0
         /\ UNCHANGED <<flash, cursors, stack, result, committed, newest, log>>

\* write(): the record fits at the write position; its chunks follow
WriteAppend ==
    /\ pc' = "w_length"
    /\ k' = 0
    /\ UNCHANGED <<flash, cursors, stack, result, committed, newest, log>>

\* write(): the record does not fit; target_bank is the other bank and the
\* write position goes back to 0
WriteSwitch ==
    /\ m_write_position' = 0
    /\ pc' = "w_erase_target"
    /\ UNCHANGED <<flash, m_read_bank, m_write_bank, m_read_position, k, stack,
                   result, committed, newest, log>>

\* mutant: the capacity check looks at bank 0 alone
WriteEnterChecksBank0Only ==
    /\ pc = "w_enter"
    /\ IF remaining(BANK0, 0) < required(Len(payload))
       THEN WriteReject
       ELSE IF remaining(m_write_bank, m_write_position) >= required(Len(payload))
            THEN WriteAppend
            ELSE WriteSwitch
    /\ UNCHANGED <<m_default_payload, payload, op, boot, dest, pre, powerlosses, crashed>>

\* entry of TxFlash::write: the capacity check and the choice of the branch
WriteEnter ==
    /\ pc = "w_enter"
    /\ IF Min(remaining(BANK0, 0), remaining(BANK1, 0)) < required(Len(payload))
       THEN WriteReject
       ELSE IF remaining(m_write_bank, m_write_position) >= required(Len(payload))
            THEN WriteAppend
            ELSE WriteSwitch
    /\ UNCHANGED <<m_default_payload, payload, op, boot, dest, pre, powerlosses, crashed>>

\* mutant: the ping-pong branch stays in the bank it is in
target_bank_stays(write_bank) == write_bank

\* target_bank of the ping-pong branch
target_bank(write_bank) == IF write_bank = BANK0 THEN BANK1 ELSE BANK0

\* mutant: the bank that is left is erased together with the target bank
WriteEraseTargetAndSource ==
    /\ pc = "w_erase_target"
    /\ bank0' = erased(BANK0) /\ bank1' = erased(BANK1)
    /\ m_write_bank' = target_bank(m_write_bank)
    /\ stack' = <<target_bank(m_write_bank)>> \o stack
    /\ log' = log \o <<Erase(target_bank(m_write_bank)), Erase(m_write_bank)>>
    /\ pc' = "w_enter"
    /\ newest' = NoNewest
    /\ UNCHANGED <<empty_value, m_default_payload, m_read_bank, m_read_position,
                   m_write_position, k, payload, op, result, boot, dest, pre, committed,
                   powerlosses, crashed>>

\* write(): erase the target bank, make it the write bank, call write() again
WriteEraseTarget ==
    /\ pc = "w_erase_target"
    /\ LET target == target_bank(m_write_bank)
       IN /\ IF target = BANK1
             THEN bank1' = erased(BANK1) /\ UNCHANGED bank0
             ELSE bank0' = erased(BANK0) /\ UNCHANGED bank1
          /\ m_write_bank' = target
          /\ stack' = <<target>> \o stack
          /\ log' = Append(log, Erase(target))
    /\ pc' = "w_enter"
    /\ newest' = forget(target_bank(m_write_bank))
    /\ UNCHANGED <<empty_value, m_default_payload, m_read_bank, m_read_position,
                   m_write_position, k, payload, op, result, boot, dest, pre, committed,
                   powerlosses, crashed>>

\* the bank contents after programming one byte at (bank, position)
Programmed(bank, position, byte) ==
    IF bank = BANK0
    THEN bank0' = program(bank0, position, byte) /\ UNCHANGED bank1
    ELSE bank1' = program(bank1, position, byte) /\ UNCHANGED bank0

\* write_chunk(m_write_bank, m_write_position + 1, &length, sizeof(position_t)),
\* byte k
WriteLength ==
    /\ pc = "w_length"
    /\ Programmed(m_write_bank, m_write_position + 1 + k, length_byte(Len(payload), k))
    /\ log' = IF k = 0
              THEN Append(log, WriteChunk(m_write_bank, m_write_position + 1, sizeL))
              ELSE log
    /\ IF k + 1 < sizeL
       THEN pc' = "w_length" /\ k' = k + 1
       ELSE pc' = "w_payload" /\ k' = 0
    /\ UNCHANGED <<empty_value, m_default_payload, cursors, payload, stack, op, result,
                   boot, dest, pre, committed, newest, powerlosses, crashed>>

\* write_chunk(m_write_bank, m_write_position + 1 + sizeof(position_t), payload,
\* length), byte k; a chunk of no bytes is a call that programs nothing
WritePayload ==
    /\ pc = "w_payload"
    /\ IF Len(payload) = 0
       THEN UNCHANGED <<bank0, bank1>>
       ELSE Programmed(m_write_bank, m_write_position + 1 + sizeL + k, payload[k + 1])
    /\ log' = IF k = 0
              THEN Append(log, WriteChunk(m_write_bank, m_write_position + 1 + sizeL,
                                          Len(payload)))
              ELSE log
    /\ IF k + 1 < Len(payload)
       THEN pc' = "w_payload" /\ k' = k + 1
       ELSE pc' = "w_header" /\ k' = 0
    /\ UNCHANGED <<empty_value, m_default_payload, cursors, payload, stack, op, result,
                   boot, dest, pre, committed, newest, powerlosses, crashed>>

\* mutant: the read position is not moved to the new record
WriteHeaderKeepsReadPosition ==
    /\ pc = "w_header"
    /\ Programmed(m_write_bank, m_write_position, RECORD)
    /\ log' = Append(log, WriteChunk(m_write_bank, m_write_position, 1))
    /\ m_read_bank' = m_write_bank
    /\ m_write_position' = (m_write_position + 1 + sizeL + Len(payload)) % PosMod
    /\ Return(TRUE)
    /\ UNCHANGED <<empty_value, m_default_payload, m_write_bank, m_read_position, k,
                   payload, op, boot, dest, pre, powerlosses, crashed>>

\* write_chunk(m_write_bank, m_write_position, &header, 1), the cursor
\* updates and return true
WriteHeader ==
    /\ pc = "w_header"
    /\ Programmed(m_write_bank, m_write_position, RECORD)
    /\ log' = Append(log, WriteChunk(m_write_bank, m_write_position, 1))
    /\ m_read_bank' = m_write_bank
    /\ m_read_position' = m_write_position
    /\ m_write_position' = (m_write_position + 1 + sizeL + Len(payload)) % PosMod
    /\ Return(TRUE)
    /\ UNCHANGED <<empty_value, m_default_payload, m_write_bank, k, payload, op,
                   boot, dest, pre, powerlosses, crashed>>

\* case Bank::BANK0 after the nested write() returned true: m_bank1.erase(),
\* then return result
WriteEraseStale ==
    /\ pc = "w_erase_stale"
    /\ bank1' = erased(BANK1)
    /\ log' = Append(log, Erase(BANK1))
    /\ Return(result = "true")
    /\ UNCHANGED <<bank0, empty_value, m_default_payload, cursors, k, payload, op,
                   boot, dest, pre, powerlosses, crashed>>

\* a caller invokes reset() on the constructed engine
ResetCall ==
    /\ pc = "idle"
    /\ pc' = "r_erase0"
    /\ op' = "reset"
    /\ k' = 0 /\ stack' = <<>> /\ result' = "none" /\ log' = <<>> /\ payload' = <<>>
    /\ pre' = [rec |-> read, len |-> length, cursors |-> cursors,
               header |-> peek(data_of(m_read_bank), m_read_position),
               payload |-> m_default_payload]
    /\ boot' = NoBoot /\ dest' = NoDest /\ crashed' = "none"
    /\ UNCHANGED <<flash, m_default_payload, cursors, committed, newest, powerlosses>>

\* mutant: reset() starts with the erase of bank 1
ResetErase0ErasesBank1 ==
    /\ pc = "r_erase0"
    /\ bank1' = erased(BANK1)
    /\ log' = Append(log, Erase(BANK1))
    /\ pc' = "r_erase1"
    /\ newest' = forget(BANK1)
    /\ UNCHANGED <<bank0, empty_value, m_default_payload, cursors, k, payload, stack,
                   op, result, boot, dest, pre, committed, powerlosses, crashed>>

\* reset(): m_bank0.erase()
ResetErase0 ==
    /\ pc = "r_erase0"
    /\ bank0' = erased(BANK0)
    /\ log' = Append(log, Erase(BANK0))
    /\ pc' = "r_erase1"
    /\ newest' = forget(BANK0)
    /\ UNCHANGED <<bank1, empty_value, m_default_payload, cursors, k, payload, stack,
                   op, result, boot, dest, pre, committed, powerlosses, crashed>>

\* mutant: reset() leaves the cursors where they were
ResetErase1KeepsCursors ==
    /\ pc = "r_erase1"
    /\ bank1' = erased(BANK1)
    /\ log' = Append(log, Erase(BANK1))
    /\ payload' = m_default_payload
    /\ pc' = "w_enter"
    /\ newest' = forget(BANK1)
    /\ UNCHANGED <<bank0, empty_value, m_default_payload, cursors, k, stack, op,
                   result, boot, dest, pre, committed, powerlosses, crashed>>

\* reset(): m_bank1.erase(), the cursors back to (BANK0, 0) and the call of
\* write(m_default_payload, m_default_payload_length)
ResetErase1 ==
    /\ pc = "r_erase1"
    /\ bank1' = erased(BANK1)
    /\ log' = Append(log, Erase(BANK1))
    /\ m_read_bank' = BANK0 /\ m_write_bank' = BANK0
    /\ m_read_position' = 0 /\ m_write_position' = 0
    /\ payload' = m_default_payload
    /\ pc' = "w_enter"
    /\ newest' = forget(BANK1)
    /\ UNCHANGED <<bank0, empty_value, m_default_payload, k, stack, op, result,
                   boot, dest, pre, committed, powerlosses, crashed>>

\* power is lost: the flash keeps its contents, the engine's memory is gone
PowerLoss ==
    /\ pc # "off"
    /\ powerlosses < MaxPowerLoss
    /\ powerlosses' = powerlosses + 1
    /\ pc' = "off"
    /\ m_read_bank' = BANK0 /\ m_write_bank' = BANK0
    /\ m_read_position' = 0 /\ m_write_position' = 0
    /\ k' = 0 /\ payload' = <<>> /\ stack' = <<>> /\ op' = "none" /\ result' = "none"
    /\ log' = <<>> /\ boot' = NoBoot /\ dest' = NoDest
    /\ crashed' = IF op = "write" THEN "write" ELSE IF pc = "idle" THEN "none" ELSE op
    /\ pre' = IF op = "write" \/ (op = "reset" /\ pc # "idle") THEN pre ELSE NoPre
    /\ UNCHANGED <<flash, m_default_payload, committed, newest>>

\* what a read_chunk that leaves the buffer of the bank may copy: memcpy
\* from outside m_flash has no defined result; two outcomes stand for it
Overread == { <<-2>>, <<-3>> }

\* a caller invokes length() on the constructed engine
LengthCall ==
    /\ pc = "idle"
    /\ dest' = [dest EXCEPT !.length = length]
    /\ UNCHANGED <<flash, m_default_payload, cursors, control, log, boot, pre,
                   committed, newest, powerlosses, crashed>>

\* a caller invokes read(destination) on the constructed engine
ReadCall ==
    /\ pc = "idle"
    /\ \E data \in (IF read = <<-1>> THEN Overread ELSE {read}) :
           dest' = [dest EXCEPT !.data = data]
    /\ UNCHANGED <<flash, m_default_payload, cursors, control, log, boot, pre,
                   committed, newest, powerlosses, crashed>>

\* construction and write(), the steps of a history without reset()
Writes ==
    \/ Construct
    \/ WriteCall
    \/ WriteEnter
    \/ WriteEraseTarget
    \/ WriteLength
    \/ WritePayload
    \/ WriteHeader
    \/ WriteEraseStale

Step ==
    \/ Writes
    \/ ResetCall
    \/ ResetErase0
    \/ ResetErase1

Next == Step \/ PowerLoss

\* any bank contents at the first construction; writes, resets, power losses
Spec == Init /\ [][Next]_vars

\* two freshly erased banks; writes, resets, power losses
SpecPower == InitFresh /\ [][Next]_vars

\* two freshly erased banks; writes and resets, no power loss
SpecFresh == InitFresh /\ [][Step]_vars

\* two freshly erased banks; writes only
SpecWrites == InitFresh /\ [][Writes]_vars

\* ---------------------------------------------------------------- claims
Fits(P) == 1 + sizeL + Len(P) + 1 <= BankLen

Logged(entry) == \E i \in 1..Len(log) : log[i] = entry

\* the bank the last construction scanned
Scanned == IF boot.scanned = "BANK1" THEN BANK1 ELSE BANK0

NoErase == \A i \in 1..Len(log) : log[i].call # "erase"

\* the payloads of the well-formed records that follow one another in data
\* from position p on, read off the record layout
RECURSIVE Records(_, _)
Records(data, p) ==
    IF peek(data, p) # RECORD \/ p + 1 + sizeL + 1 > BankLen
    THEN <<>>
    ELSE LET n == data[p + 1] + 256 * data[p + 2]
         IN IF p + 1 + sizeL + n + 1 > BankLen
            THEN <<>>
            ELSE <<[i \in 1..n |-> data[p + sizeL + i]]>>
                     \o Records(data, p + 1 + sizeL + n)

\* C1: a power loss after any prefix of the bank operations of a write(P),
\* called while the read cursor addressed a committed record, followed by
\* the construction of a new engine, leaves read() equal to the record that
\* was current before the write or to P.
C1_CrashSafety ==
    (pc = "idle" /\ op = "construct" /\ crashed = "write" /\ pre.header = RECORD)
        => read \in {pre.rec, pre.payload}

\* C2: whenever write(P, L) has returned true, a construction over the banks
\* as they are ends the scan in VALID, and read() and length() of the new
\* engine give P and L.
C2_Durability ==
    (pc = "idle" /\ op = "write" /\ result = "true")
        => LET p == parse(bank0, bank1)
           IN /\ p.state = "VALID"
              /\ read_at(bank0, bank1, p.bank, p.rp) = payload
              /\ length_at(bank0, bank1, p.bank, p.rp) = Len(payload)

\* C3: in any reachable state a write(P, L) with 1 + sizeL + L + 1 <= bank
\* length returns true, and then length() is L and read() is P, whether the
\* record was appended or moved to the other bank.
C3_RoundTrip ==
    (pc = "idle" /\ op = "write" /\ Fits(payload))
        => /\ result = "true"
           /\ length = Len(payload)
           /\ read = payload

\* a write that moved a non-empty record to the other bank has returned
C3_Witness ==
    /\ pc = "idle" /\ op = "write" /\ result = "true"
    /\ Len(payload) > 0
    /\ Logged(Erase(BANK1))
    /\ m_read_bank = BANK1

\* C4: from two erased banks, after any sequence of writes, read() and
\* length() give the payload of the last write that returned true.
C4_LastWriterWins ==
    (pc = "idle" /\ op = "write" /\ committed # NoPayload)
        => /\ read = committed
           /\ length = Len(committed)
           /\ (result = "true" => committed = payload)

\* a write has moved the record back from bank 1 to bank 0
C4_Witness ==
    /\ pc = "idle" /\ op = "write" /\ result = "true"
    /\ Logged(Erase(BANK0))
    /\ m_read_bank = BANK0
    /\ read = payload

\* C5: constructed over two banks whose byte 0 is E, with a default that
\* fits, the engine writes the default as one record at position 0 of bank 0
\* (length, payload, header), writes nothing to bank 1, and length() and
\* read() give the default.
C5_DefaultOnEmpty ==
    (pc = "idle" /\ op = "construct" /\ boot.h0 = EMPTY /\ boot.h1 = EMPTY
        /\ Fits(m_default_payload))
        => /\ log = << WriteChunk(BANK0, 1, sizeL),
                       WriteChunk(BANK0, 1 + sizeL, Len(m_default_payload)),
                       WriteChunk(BANK0, 0, 1) >>
           /\ bank0[0] = RECORD
           /\ m_read_bank = BANK0 /\ m_read_position = 0
           /\ length = Len(m_default_payload)
           /\ read = m_default_payload

\* the default was written over a bank 0 with programmed bytes after byte 0
C5_Witness ==
    /\ pc = "idle" /\ op = "construct" /\ boot.h0 = EMPTY /\ boot.h1 = EMPTY
    /\ Len(m_default_payload) = 1
    /\ read = m_default_payload
    /\ bank0[4] # EMPTY

\* C6: a write() that returns false has issued no erase and no write_chunk,
\* leaves the banks and the four cursors as they were at the call, and
\* read() and length() still give the record that was current.
C6_RejectedUnchanged ==
    [][(pc # "idle" /\ pc' = "idle" /\ op' = "write" /\ result' = "false")
        => /\ bank0' = bank0 /\ bank1' = bank1
           /\ log' = <<>>
           /\ cursors' = pre.cursors
           /\ read' = pre.rec
           /\ length' = pre.len]_vars

\* a write was rejected while a record was current
C6_Witness ==
    /\ pc = "idle" /\ op = "write" /\ result = "false"
    /\ pre.header = RECORD
    /\ m_read_position > 0

\* C7: write(P, L) returns false exactly when
\* min(len(Bank0), len(Bank1)) < 1 + sizeL + L + 1; the ping-pong path never
\* reports failure.
C7_FalseIffTooLarge ==
    (pc = "idle" /\ result # "none")
        => (result = "false"
                <=> Min(Bank0Len, Bank1Len) < 1 + sizeL + Len(payload) + 1)

\* a write that went through the ping-pong path has returned true
C7_Witness ==
    /\ pc = "idle" /\ op = "write" /\ result = "true"
    /\ Logged(Erase(BANK0)) /\ Logged(Erase(BANK1))

\* C8: byte 0 of the two banks decides the outcome of the construction:
\* (EMPTY, EMPTY) gives EMPTY and the default is written; (RECORD, EMPTY)
\* scans bank 0; (EMPTY, RECORD) and (RECORD, RECORD) scan bank 1; every
\* other pair gives INVALID and reset() runs.  After a VALID scan the read
\* bank and the write bank are the scanned bank.
C8_RecoveryTable ==
    (op = "construct" /\ pc # "off")
        => LET e0 == boot.h0 = EMPTY
               e1 == boot.h1 = EMPTY
               r0 == boot.h0 = RECORD
               r1 == boot.h1 = RECORD
           IN /\ (e0 /\ e1) =>
                    /\ boot.state = "EMPTY" /\ boot.scanned = "none"
                    /\ (pc = "idle" /\ Fits(m_default_payload))
                            => read = m_default_payload
              /\ (r0 /\ e1) => boot.scanned = "BANK0"
              /\ (e0 /\ r1) => boot.scanned = "BANK1"
              /\ (r0 /\ r1) => boot.scanned = "BANK1"
              /\ ~((e0 \/ r0) /\ (e1 \/ r1)) =>
                    /\ boot.state = "INVALID" /\ boot.scanned = "none"
                    /\ \/ pc = "r_erase0" /\ log = <<>>
                       \/ /\ Len(log) >= 1 /\ log[1] = Erase(BANK0)
                          /\ pc # "r_erase1" => (Len(log) >= 2 /\ log[2] = Erase(BANK1))
              /\ boot.state = "VALID" =>
                    /\ m_read_bank = Scanned
                    /\ m_write_bank = Scanned

\* both banks started with RECORD and the scan of bank 1 was VALID, while
\* bank 0 holds another record
C8_Witness ==
    /\ op = "construct" /\ pc = "idle"
    /\ boot.h0 = RECORD /\ boot.h1 = RECORD /\ boot.state = "VALID"
    /\ bank0 # bank1

\* C9: for E in {0x00, 0xFF}: constructed over two banks whose byte 0 is E
\* the engine erases no bank, whatever the default; if byte 0 of a bank is
\* neither E nor RECORD the construction erases both banks.
C9_EmptyValueHonor ==
    (op = "construct" /\ pc # "off")
        => /\ (boot.h0 = empty_value /\ boot.h1 = empty_value) => NoErase
           /\ (pc = "idle" /\ (boot.h0 \notin {EMPTY, RECORD}
                                \/ boot.h1 \notin {EMPTY, RECORD}))
                  => (Logged(Erase(BANK0)) /\ Logged(Erase(BANK1)))

\* with E = 0xFF, a construction over a bank 1 with an illegal byte 0 has
\* finished
C9_Witness ==
    /\ op = "construct" /\ pc = "idle" /\ empty_value = 255
    /\ boot.h0 = EMPTY /\ boot.h1 \notin {EMPTY, RECORD}
    /\ Logged(Erase(BANK1))

\* C10: a construction whose scan returns VALID issues no write_chunk and
\* no erase, and read() gives the payload of the last record of the bank
\* that was selected.
C10_ValidConstructionReadsLast ==
    (pc = "idle" /\ op = "construct" /\ boot.state = "VALID")
        => /\ log = <<>>
           /\ LET rs == Records(data_of(Scanned), 0)
              IN /\ rs # <<>>
                 /\ read = rs[Len(rs)]

\* a VALID scan went over two records
C10_Witness ==
    /\ pc = "idle" /\ op = "construct" /\ boot.state = "VALID"
    /\ m_read_position > 0
    /\ Len(Records(data_of(Scanned), 0)) = 2

\* a bank that holds the record of payload P at position 0 and E elsewhere
OnlyRecord(P) ==
    Image(empty_value, <<RECORD, Len(P) % ByteMod, Len(P) \div ByteMod>> \o P)

\* the flash after a reset that stored the default
DefaultOnly ==
    /\ bank0 = OnlyRecord(m_default_payload)
    /\ bank1 = erased(BANK1)
    /\ read = m_default_payload

RecordChunks(bank, p, P) ==
    << WriteChunk(bank, p + 1, sizeL),
       WriteChunk(bank, p + 1 + sizeL, Len(P)),
       WriteChunk(bank, p, 1) >>

\* C12: reset() from any reachable state erases bank 0 and bank 1, sets the
\* read and write cursors to (BANK0, 0), then writes the default payload;
\* when the default fits, afterwards the only record on flash is the default
\* at position 0 of bank 0, bank 1 is entirely E and received no write_chunk,
\* and read() returns the default.
C12_Reset ==
    /\ (op = "reset" /\ pc = "w_enter" /\ stack = <<>>)
           => /\ log = <<Erase(BANK0), Erase(BANK1)>>
              /\ bank0 = erased(BANK0) /\ bank1 = erased(BANK1)
              /\ cursors = <<BANK0, BANK0, 0, 0>>
              /\ payload = m_default_payload
    /\ (op = "reset" /\ pc = "idle" /\ Fits(m_default_payload))
           => /\ log = <<Erase(BANK0), Erase(BANK1)>>
                           \o RecordChunks(BANK0, 0, m_default_payload)
              /\ DefaultOnly
              /\ m_read_bank = BANK0 /\ m_read_position = 0

\* a reset() called on an engine constructed after a power loss has returned
\* and left the default
C12_Witness ==
    /\ op = "reset" /\ pc = "idle"
    /\ Len(m_default_payload) = 1
    /\ powerlosses > 0
    /\ DefaultOnly

\* the last construction found byte 0 of both banks equal to E
BootEmpty == boot.state = "EMPTY" /\ boot.h0 = EMPTY /\ boot.h1 = EMPTY

\* C13: constructing the engine over empty flash (byte 0 of both banks is E)
\* with a default payload of length 0 yields an engine whose length()
\* returns 0.
C13_ZeroLengthDefault ==
    (pc = "idle" /\ op = "construct" /\ BootEmpty /\ m_default_payload = <<>>)
        => length = 0

\* an engine with a default of no bytes was constructed over flash whose
\* erased bytes do not read as a length of 0
C13_Witness ==
    /\ pc = "idle" /\ op = "construct" /\ BootEmpty
    /\ m_default_payload = <<>>
    /\ empty_value = 255
    /\ length = 0

\* the engine returned from reset() or from a construction over empty flash
ResetOrEmptyBoot ==
    /\ pc = "idle"
    /\ op = "reset" \/ (op = "construct" /\ BootEmpty)

\* C14 as stated: with default_length = 0, reset() and construction over
\* empty flash leave write_position = 0 and commit no record, so that
\* length() afterwards reads erased bytes rather than a stored length.
C14_ZeroLengthDefaultCommitsNothing ==
    (ResetOrEmptyBoot /\ m_default_payload = <<>>)
        => /\ m_write_position = 0
           /\ peek(bank0, 0) = EMPTY
           /\ Len(log) = 0 \/ log[Len(log)].call = "erase"

\* C14, amended: with default_length = 0, reset() and construction over empty
\* flash commit a record of length 0 at position 0 of bank 0 with the three
\* write_chunk calls of any record and leave write_position = 1 + sizeL, so
\* that length() afterwards reads the stored length 0.
C14_ZeroLengthDefaultCommitsRecord ==
    (ResetOrEmptyBoot /\ m_default_payload = <<>>)
        => /\ cursors = <<BANK0, BANK0, 0, 1 + sizeL>>
           /\ peek(bank0, 0) = RECORD
           /\ read_length(bank0, 1) = 0
           /\ Len(log) >= 3
           /\ SubSeq(log, Len(log) - 2, Len(log)) = RecordChunks(BANK0, 0, <<>>)

\* reset() with a default of no bytes has returned on flash whose erased
\* bytes do not read as a length of 0
C14_Witness ==
    /\ pc = "idle" /\ op = "reset"
    /\ m_default_payload = <<>>
    /\ empty_value = 255
    /\ m_write_position = 1 + sizeL
    /\ peek(bank0, 0) = RECORD

\* C15: after construction over arbitrary initial bank contents and after
\* every write() or reset() that returns, read_bank = write_bank and either
\* write_position = read_position + 1 + sizeL + the length stored at
\* read_position + 1, or byte 0 of the active bank is EMPTY and
\* read_position = write_position = 0.
C15_CursorInvariant ==
    pc = "idle"
        => /\ m_read_bank = m_write_bank
           /\ \/ m_write_position = m_read_position + 1 + sizeL
                     + read_length(data_of(m_read_bank), m_read_position + 1)
              \/ /\ peek(data_of(m_read_bank), 0) = EMPTY
                 /\ m_read_position = 0 /\ m_write_position = 0

\* a write() that was rejected has returned on an engine whose cursors stand
\* behind a record at a position other than 0, in bank 1
C15_Witness ==
    /\ pc = "idle" /\ op = "write" /\ result = "false"
    /\ m_read_bank = BANK1 /\ m_write_bank = BANK1
    /\ m_read_position > 0
    /\ m_write_position = m_read_position + 1 + sizeL + length

\* the byte that the next step of write() programs, as it is on flash now
TargetByte ==
    peek(data_of(m_write_bank),
         IF pc = "w_length" THEN m_write_position + 1 + k
         ELSE IF pc = "w_payload" THEN m_write_position + 1 + sizeL + k
         ELSE m_write_position)

\* the next step of write() programs a byte
Programming ==
    \/ pc \in {"w_length", "w_header"}
    \/ pc = "w_payload" /\ Len(payload) > 0

\* C16: for every write_chunk the engine issues, in every reachable
\* execution (also after a power loss interrupted an earlier write and the
\* engine was constructed again, and after construction over banks whose
\* byte 0 is E but whose later bytes are not), every byte of the target
\* range equals E at the moment it is programmed.
C16_ProgramOnlyErased == Programming => TargetByte = EMPTY

\* write() is running: it was entered and has not returned to its caller
InWrite ==
    pc \in {"w_enter", "w_erase_target", "w_length", "w_payload", "w_header",
            "w_erase_stale"}

\* C17 as stated: at every intermediate point of a write() call the two banks
\* are never both erased at once: at least one bank has byte 0 = RECORD.
C17_NeverBothErased ==
    InWrite => (peek(bank0, 0) = RECORD \/ peek(bank1, 0) = RECORD)

\* C17, amended: at every intermediate point of a write() call that was made
\* while the read cursor addressed a committed record, and when it has
\* returned, at least one bank has byte 0 = RECORD, and the bank that held
\* the current record is not erased before the other bank holds the new
\* record with its header byte programmed. (A write() made while no record
\* is stored, as the first write of the default to empty flash, runs with
\* both banks erased until its header byte is programmed.)
C17_CurrentRecordKept ==
    (op = "write" /\ pc # "off" /\ pre.header = RECORD)
        => LET old == pre.cursors[1]
               new == target_bank(old)
           IN /\ peek(bank0, 0) = RECORD \/ peek(bank1, 0) = RECORD
              /\ pc # "idle" => peek(data_of(old), 0) = RECORD
              /\ peek(data_of(old), 0) # RECORD
                    => /\ peek(data_of(new), 0) = RECORD
                       /\ m_read_bank = new
                       /\ read = payload

\* a write() that moves the record from bank 1 to bank 0 has programmed the
\* header in bank 0 and is about to erase bank 1
C17_Witness ==
    /\ op = "write" /\ pc = "w_erase_stale" /\ pre.header = RECORD
    /\ pre.cursors[1] = BANK1
    /\ peek(bank0, 0) = RECORD /\ peek(bank1, 0) = RECORD

\* the write() that has returned was called with a payload that fits in a
\* bank but not behind the write position of the bank that was active
Migrated(bank) ==
    /\ pc = "idle" /\ op = "write"
    /\ pre.cursors[2] = bank
    /\ Fits(payload)
    /\ BankLen - pre.cursors[4] < 1 + sizeL + Len(payload) + 1

\* C18: when the active bank is bank 1 and a fitting payload does not fit at
\* write_position, write() issues exactly this sequence: erase bank 0; three
\* write_chunk calls on bank 0 (length, payload, header); erase bank 1. It
\* issues no write_chunk to bank 1, and when it returns true bank 1 is
\* entirely E and the active bank is bank 0.
C18_Bank1ToBank0Order ==
    Migrated(BANK1)
        => /\ log = <<Erase(BANK0)>> \o RecordChunks(BANK0, 0, payload)
                        \o <<Erase(BANK1)>>
           /\ result = "true"
           /\ bank1 = erased(BANK1)
           /\ bank0 = OnlyRecord(payload)
           /\ cursors = <<BANK0, BANK0, 0, 1 + sizeL + Len(payload)>>

\* a write() has moved a record of one byte from bank 1, where records were
\* stored, to bank 0
C18_Witness ==
    /\ Migrated(BANK1)
    /\ pre.header = RECORD
    /\ Len(payload) = 1
    /\ result = "true"
    /\ bank1 = erased(BANK1)

\* a step of a write() that was called with bank 0 active and a payload that
\* fits in a bank but not behind the write position
MigrationStepFromBank0 ==
    /\ op = "write" /\ op' = "write"
    /\ pre.cursors[2] = BANK0
    /\ Fits(payload)
    /\ BankLen - pre.cursors[4] < 1 + sizeL + Len(payload) + 1

\* C19: when the active bank is bank 0 and a fitting payload does not fit at
\* write_position, write() erases bank 1, writes the record at position 0 of
\* bank 1 with three write_chunk calls, and issues neither erase nor
\* write_chunk to bank 0; afterwards the active bank is bank 1 and bank 0
\* still holds its old records byte for byte.
C19_Bank0Untouched ==
    [][MigrationStepFromBank0
          => /\ bank0' = bank0
             /\ pc' = "idle"
                   => /\ log' = <<Erase(BANK1)>> \o RecordChunks(BANK1, 0, payload)
                      /\ result' = "true"
                      /\ bank1' = OnlyRecord(payload)
                      /\ cursors' = <<BANK1, BANK1, 0, 1 + sizeL + Len(payload)>>
                      /\ read_at(bank0', bank1', BANK0, pre.cursors[3]) = pre.rec]_vars

\* a write() has moved to bank 1 and the record that was current in bank 0
\* is still there
C19_Witness ==
    /\ Migrated(BANK0)
    /\ pre.header = RECORD /\ Len(pre.rec) > 0
    /\ result = "true"
    /\ m_read_bank = BANK1
    /\ read_at(bank0, bank1, BANK0, pre.cursors[3]) = pre.rec
    /\ read = payload

\* the write_chunk calls in the log
Chunks == SelectSeq(log, LAMBDA entry : entry.call = "write_chunk")

\* the state a construction over the flash as it is now would reach
Recovered == parse(bank0, bank1)

\* C20: every record emission at position P consists of exactly three
\* write_chunk calls in the order length at P + 1, payload at P + 1 + sizeL,
\* header RECORD at P; the byte at P stays EMPTY until the last of them, so
\* that a recovery scan over the flash taken at any earlier point does not
\* see the new record.
C20_HeaderLast ==
    /\ pc \in {"w_length", "w_payload", "w_header"}
          => /\ peek(data_of(m_write_bank), m_write_position) = EMPTY
             /\ ~ (/\ Recovered.state = "VALID"
                   /\ Recovered.bank = m_write_bank
                   /\ Recovered.rp >= m_write_position)
    /\ (pc = "w_length" /\ k = 0) => Chunks = <<>>
    /\ (pc = "w_payload" /\ k = 0)
          => Chunks = <<WriteChunk(m_write_bank, m_write_position + 1, sizeL)>>
    /\ pc = "w_header"
          => Chunks = <<WriteChunk(m_write_bank, m_write_position + 1, sizeL),
                        WriteChunk(m_write_bank, m_write_position + 1 + sizeL,
                                   Len(payload))>>
    /\ (pc \in {"idle", "w_erase_stale"} /\ result = "true")
          => Chunks = RecordChunks(m_read_bank, m_read_position, payload)

\* a step of a write() that was called with at least 1 + sizeL + L + 1 bytes
\* left at the write position of the active bank
FastPathStep ==
    /\ op = "write" /\ op' = "write"
    /\ pc # "idle"
    /\ BankLen - pre.cursors[4] >= 1 + sizeL + Len(payload) + 1

\* C21: when the active bank has at least 1 + sizeL + L + 1 bytes left at
\* write_position, write(P, L) issues no erase, issues no operation that
\* changes the other bank, leaves all bytes of the active bank below
\* write_position unchanged, and sets read_position to the old
\* write_position, write_position to the old write_position + 1 + sizeL + L
\* and read_bank to write_bank.
C21_FastPathFrame ==
    [][FastPathStep
          => LET active == pre.cursors[2]
                 W == pre.cursors[4]
             IN /\ \A entry \in {log'[i] : i \in 1..Len(log')} :
                       entry.call = "write_chunk" /\ entry.bank = active
                /\ IF active = BANK0 THEN bank1' = bank1 ELSE bank0' = bank0
                /\ \A i \in 0..(W - 1) :
                       IF active = BANK0 THEN bank0'[i] = bank0[i]
                                         ELSE bank1'[i] = bank1[i]
                /\ pc' = "idle"
                      => /\ result' = "true"
                         /\ cursors' = <<active, active, W,
                                         W + 1 + sizeL + Len(payload)>>]_vars

\* a write() has appended a record behind another one in bank 1 without
\* leaving the bank
C21_Witness ==
    /\ pc = "idle" /\ op = "write" /\ result = "true"
    /\ pre.cursors[2] = BANK1 /\ pre.cursors[4] > 0
    /\ BankLen - pre.cursors[4] >= 1 + sizeL + Len(payload) + 1
    /\ Len(payload) > 0
    /\ m_read_bank = BANK1 /\ m_read_position = pre.cursors[4]
    /\ NoErase

\* the steps of a write() that is running
WriteRun ==
    \/ WriteEnter
    \/ WriteEraseTarget
    \/ WriteLength
    \/ WritePayload
    \/ WriteHeader
    \/ WriteEraseStale

\* an erased bank of n bytes
ErasedBank(e, n) == [i \in 0..(n - 1) |-> e]

\* the lengths of bank 0 and bank 1: equal, bank 1 shorter, bank 0 shorter
LengthPairs == { <<BankLen, BankLen>>, <<BankLen, BankLen - 2>>,
                 <<BankLen - 2, BankLen>> }

\* two freshly erased banks that need not have the same length
InitLengths ==
    \E e \in {0, 255} : \E d \in Defaults : \E n \in LengthPairs :
        InitWith(e, ErasedBank(e, n[1]), ErasedBank(e, n[2]), d)

\* banks of equal or different lengths; writes and resets, no power loss; a
\* write() that is running takes its next step
SpecLengths == InitLengths /\ [][Step]_vars /\ WF_vars(WriteRun)

\* C22: every write() call terminates, and in the ping-pong path the
\* recursion depth is exactly one: the nested call always takes the fast path
\* at write_position = 0 of the freshly erased target bank and never recurses
\* again, also when the two banks have different lengths.
C22_WriteTerminates ==
    /\ [](Len(stack) <= 1)
    /\ []((pc = "w_enter" /\ stack # <<>>)
             => /\ m_write_position = 0
                /\ m_write_bank = Head(stack)
                /\ data_of(m_write_bank) = erased(m_write_bank)
                /\ length_of(m_write_bank) - m_write_position
                       >= 1 + sizeL + Len(payload) + 1)
    /\ [](pc \in {"w_erase_target", "w_erase_stale"} => stack = <<>>)
    /\ (InWrite ~> (pc = "idle"))

\* a nested write() is about to append at position 0 of the shorter bank
C22_Witness ==
    /\ pc = "w_length" /\ stack = <<BANK1>>
    /\ Bank1Len < Bank0Len
    /\ m_write_bank = BANK1 /\ m_write_position = 0
    /\ Len(payload) > 0

\* the position behind the well-formed records that follow one another in
\* data from position p on, and the position of the last of them (p itself
\* when there is none), read off the record layout
RECURSIVE Chain(_, _, _)
Chain(data, p, last) ==
    IF peek(data, p) # RECORD \/ p + 1 + sizeL + 1 > BankLen
    THEN [end |-> p, last |-> last]
    ELSE LET n == data[p + 1] + 256 * data[p + 2]
         IN IF p + 1 + sizeL + n + 1 > BankLen
            THEN [end |-> p, last |-> last]
            ELSE Chain(data, p + 1 + sizeL + n, p)

\* data holds n >= 1 well-formed records from position 0 and an EMPTY byte
\* behind them
WellFormedChain(data) ==
    /\ peek(data, 0) = RECORD
    /\ Chain(data, 0, 0).end > 0
    /\ peek(data, Chain(data, 0, 0).end) = EMPTY

\* the construction has run parse() and nothing else yet
JustParsed == op = "construct" /\ log = <<>> /\ pc \in {"idle", "r_erase0"}

\* C23: for a selected bank that holds a chain of n >= 1 well-formed records
\* starting at offset 0 and followed by an EMPTY byte, the scan returns VALID
\* with read_position at the header of the n-th record and write_position at
\* the EMPTY byte that follows it; read() then returns the n-th payload and
\* none of the earlier ones.
C23_FastForwardFindsLast ==
    (JustParsed /\ boot.scanned # "none" /\ WellFormedChain(data_of(Scanned)))
        => LET data == data_of(Scanned)
               c == Chain(data, 0, 0)
               n == data[c.last + 1] + 256 * data[c.last + 2]
           IN /\ boot.state = "VALID" /\ pc = "idle"
              /\ cursors = <<Scanned, Scanned, c.last, c.end>>
              /\ c.end = c.last + 1 + sizeL + n
              /\ length = n
              /\ read = [i \in 1..n |-> data[c.last + sizeL + i]]

\* the scan of bank 1 went over two records with different payloads and
\* stopped at the second
C23_Witness ==
    /\ JustParsed /\ boot.scanned = "BANK1"
    /\ WellFormedChain(bank1)
    /\ Chain(bank1, 0, 0).last > 0
    /\ m_read_position = Chain(bank1, 0, 0).last
    /\ read # read_at(bank0, bank1, BANK1, 0)

\* data is zero or more well-formed records from position 0, then bytes
\* equal to E up to the end of the bank
RecordsThenErased(data) ==
    \A i \in Chain(data, 0, 0).end..(BankLen - 1) : data[i] = EMPTY

\* C24: at every quiescent point (after construction, and after every write()
\* or reset() returns), also after recovery from a power loss, each bank
\* consists of zero or more well-formed records starting at offset 0, then an
\* EMPTY byte, then bytes equal to E up to the end of the bank; in particular
\* every byte of the active bank from write_position to the end equals E.
C24_BankContents ==
    pc = "idle"
        => /\ RecordsThenErased(bank0)
           /\ RecordsThenErased(bank1)
           /\ \A i \in m_write_position..(BankLen - 1) :
                  data_of(m_write_bank)[i] = EMPTY

\* the byte at the read cursor: the header of the current record
CurrentHeader == peek(data_of(m_read_bank), m_read_position)

\* a write() has returned true: the read cursor is at the header it programmed
Stored == pc = "idle" /\ result = "true"

\* C25 as stated: the RECORD header byte equals 0xFE when E = 0xFF and 0x01
\* when E = 0x00, i.e. RECORD differs from E only in the lowest-order bit.
C25_RecordIsLowBitFlip ==
    Stored
        => /\ empty_value = 255 => CurrentHeader = 254
           /\ empty_value = 0 => CurrentHeader = 1
           /\ CurrentHeader \div 2 = empty_value \div 2

\* C25, amended: the RECORD header byte equals 0x00 when E = 0xFF and 0x01
\* when E = 0x00, i.e. RECORD is E + 1 modulo 256; for E = 0xFF it differs
\* from E in every bit.
C25_RecordIsSuccessor ==
    Stored
        => /\ empty_value = 255 => CurrentHeader = 0
           /\ empty_value = 0 => CurrentHeader = 1
           /\ CurrentHeader = (empty_value + 1) % 256

\* a record was stored on flash whose erased value is 0xFF
C25_Witness ==
    /\ Stored /\ op = "write"
    /\ empty_value = 255
    /\ CurrentHeader = 0
    /\ m_read_position > 0

\* byte 0 of both banks is RECORD
BothRecord == peek(bank0, 0) = RECORD /\ peek(bank1, 0) = RECORD

\* C26 as stated: byte 0 of both banks being RECORD is reachable only through
\* a power loss that falls between the commit of a record in the new bank
\* and the erase of the old bank; no execution without a power loss leaves
\* both banks with a RECORD header when write() returns.
C26_BothRecordOnlyByPowerLoss ==
    (pc = "idle" /\ powerlosses = 0) => ~ BothRecord

\* C26, amended: without a power loss, byte 0 of both banks is RECORD when
\* write() returns after every move from bank 0 to bank 1, which leaves bank
\* 0 as it was, and for as long as bank 1 stays active; the active bank is
\* then bank 1. With bank 0 as the write bank it holds only between the
\* header chunk of a move from bank 1 to bank 0 and the erase of bank 1 that
\* follows it.
C26_BothRecordMeansBank1Active ==
    (BothRecord /\ powerlosses = 0)
        => \/ /\ m_write_bank = BANK1
              /\ pc = "idle" => m_read_bank = BANK1
              /\ stack = <<>>
           \/ /\ m_write_bank = BANK0 /\ m_read_bank = BANK0
              /\ pc = "w_erase_stale"

\* a write() has returned, without any power loss, from a move to bank 1 and
\* both banks have a RECORD header
C26_Witness ==
    /\ Migrated(BANK0) /\ result = "true"
    /\ powerlosses = 0
    /\ BothRecord
    /\ m_read_bank = BANK1

\* the construction has run parse() on banks that both have a RECORD header
ParsedBothRecord == JustParsed /\ boot.h0 = RECORD /\ boot.h1 = RECORD

\* C27 as stated: in every on-flash state reachable from erased banks by
\* writes, resets and power losses in which byte 0 of both banks is RECORD,
\* the last record of bank 1 was committed later than the last record of
\* bank 0, so that selecting bank 1 selects the newest committed data.
C27_Bank1IsNewest ==
    ParsedBothRecord => (boot.scanned = "BANK1" /\ newest.bank = BANK1)

\* C27, amended: in every such state parse() selects bank 1, and either the
\* last record of bank 1 was committed later than the last record of bank 0,
\* or the last header was programmed at position 0 of bank 0 by a move from
\* bank 1 whose write() lost power before it erased bank 1 and never
\* returned; bank 1 then holds the record that was current before that
\* write(), not the newest header on flash.
C27_Bank1IsNewestOrBank0Unreturned ==
    ParsedBothRecord
        => /\ boot.scanned = "BANK1"
           /\ \/ newest.bank = BANK1
              \/ /\ newest.bank = BANK0 /\ newest.open
                 /\ powerlosses > 0
                 /\ Chain(bank0, 0, 0).last = 0

\* power was lost between the header chunk of a move to bank 0 and the erase
\* of bank 1, and the next construction selected bank 1
C27_Witness ==
    /\ ParsedBothRecord /\ boot.scanned = "BANK1"
    /\ newest.bank = BANK0 /\ newest.open
    /\ pc = "idle" /\ boot.state = "VALID"
    /\ read # read_at(bank0, bank1, BANK0, 0)

\* the test "handle bank#0 non-empty, bank#1 empty": banks of 20 bytes with
\* E = 0, bank 0 preloaded with the record of "0000", default "!!!!"
TestLen == 20
TestBank0 ==
    [i \in 0..(TestLen - 1) |->
        IF i < 8 THEN <<1, 5, 0, 48, 48, 48, 48, 0>>[i + 1] ELSE 0]
TestBank1 == ErasedBank(0, TestLen)
TestDefault == <<33, 33, 33, 33, 0>>

\* "0000", the record preloaded in bank 0, and "0001", the payload written
Test0000 == <<48, 48, 48, 48, 0>>
Test0001 == <<48, 48, 48, 49, 0>>

\* the payloads written in the test scenario: "0001" and the default
TestPayloads == { Test0001, TestDefault }

InitTest == InitWith(0, TestBank0, TestBank1, TestDefault)

TestWrites ==
    \/ Construct
    \/ WriteCallOf(TestPayloads)
    \/ WriteRun

\* the banks of the test; construction and writes
SpecTest == InitTest /\ [][TestWrites]_vars

\* write("0001", 5) has returned and was called while the preloaded record
\* "0000" was current: the first write after booting over the test banks
FirstTestWrite ==
    /\ pc = "idle" /\ op = "write"
    /\ payload = Test0001
    /\ pre.rec = Test0000 /\ pre.cursors[1] = BANK0 /\ pre.cursors[3] = 0

\* C28 as stated: with 20-byte banks, sizeL = 2 and E = 0x00, after booting
\* over bank 0 = [0x01, 0x05, 0x00, '0','0','0','0', 0x00, 0, ...] and bank 1
\* all zero, write("0001", 5) places the header of the new record at position
\* 9 of bank 0.
C28_HeaderAtNine ==
    FirstTestWrite
        => /\ m_read_bank = BANK0 /\ m_read_position = 9
           /\ peek(bank0, 9) = RECORD

\* C28, amended: the preloaded record takes positions 0 to 7 (header, two
\* length bytes, the five payload bytes '0','0','0','0',0x00) and the scan
\* ends at the EMPTY byte at position 8; write("0001", 5) places the header
\* of the new record at position 8 of bank 0.
C28_HeaderAtEight ==
    FirstTestWrite
        => /\ result = "true"
           /\ pre.cursors[4] = 8
           /\ m_read_bank = BANK0 /\ m_read_position = 8
           /\ peek(bank0, 8) = RECORD
           /\ log = RecordChunks(BANK0, 8, Test0001)
           /\ m_write_position = 16
           /\ read = Test0001

\* the first write after booting over the test banks has returned
C28_Witness ==
    /\ FirstTestWrite /\ result = "true"
    /\ Bank0Len = TestLen /\ Bank1Len = TestLen /\ empty_value = 0
    /\ peek(bank0, 8) = RECORD
    /\ read_at(bank0, bank1, BANK0, 0) = Test0000

\* C29: after a successful write(P, L) whose header lands at position W of
\* the active bank, that bank holds RECORD at W, L in little-endian order in
\* the sizeL bytes from W + 1, the L bytes of P from W + 1 + sizeL, and EMPTY
\* at W + 1 + sizeL + L (in executions without power loss, from erased
\* banks).
C29_RecordLayout ==
    Stored
        => LET W == m_read_position
               data == data_of(m_read_bank)
               L == Len(payload)
           IN /\ m_read_bank = m_write_bank
              /\ peek(data, W) = RECORD
              /\ peek(data, W + 1) = L % 256
              /\ peek(data, W + 2) = L \div 256
              /\ \A i \in 1..L : peek(data, W + sizeL + i) = payload[i]
              /\ peek(data, W + 1 + sizeL + L) = EMPTY

\* a record of one byte that differs from E was appended behind another
\* record
C29_Witness ==
    /\ Stored /\ op = "write"
    /\ Len(payload) = 1 /\ payload[1] # empty_value
    /\ m_read_position > 0
    /\ peek(data_of(m_read_bank), m_read_position + 1) = 1
    /\ peek(data_of(m_read_bank), m_read_position + 1 + sizeL) = payload[1]

\* two freshly erased banks; writes, resets, length() and read(); no power
\* loss
SpecReads == InitFresh /\ [][Step \/ LengthCall \/ ReadCall]_vars

\* C30: length() and read() are read-only: in any reachable state they issue
\* no write_chunk and no erase, leave the four cursors unchanged, and two
\* consecutive calls with no write or reset in between return the same
\* result.
C30_ReadOnly ==
    [][(LengthCall \/ ReadCall)
          => /\ flash' = flash
             /\ log' = log
             /\ cursors' = cursors
             /\ dest.length # -1 => dest'.length = dest.length
             /\ dest.data # NoPayload => dest'.data = dest.data]_vars

\* ------------------------------------------- position_t as wide as size_t
\* The engine over Stm32f4FlashBank: position_t = size_t, 32 bits on the
\* STM32F4, so every sum and difference of write() and fast_forward() is
\* taken modulo 2^32. A size_t is held as its SizeL bytes, lowest first, the
\* way the length field lies in the bank.
SizeL == 4
WideLen == 12
MaxScan == 4

\* the size_t with the value n, 0 <= n < 2^31
size_t(n) == [i \in 1..SizeL |-> (n \div (ByteMod ^ (i - 1))) % ByteMod]

\* a + b in size_t
plus(a, b) ==
    LET s1 == a[1] + b[1]
        s2 == a[2] + b[2] + s1 \div ByteMod
        s3 == a[3] + b[3] + s2 \div ByteMod
        s4 == a[4] + b[4] + s3 \div ByteMod
    IN <<s1 % ByteMod, s2 % ByteMod, s3 % ByteMod, s4 % ByteMod>>

\* a - b in size_t: a + ~b + 1
minus(a, b) ==
    plus(plus(a, [i \in 1..SizeL |-> ByteMod - 1 - b[i]]), size_t(1))

\* a < b in size_t
less(a, b) ==
    \E i \in 1..SizeL : a[i] < b[i] /\ \A j \in (i + 1)..SizeL : a[j] = b[j]

\* the position a size_t names in a bank of fewer than 2^16 bytes, -1 if none
index(a) == IF a[3] = 0 /\ a[4] = 0 THEN a[1] + ByteMod * a[2] ELSE -1

\* TxFlash::remaining with position_t = size_t
remaining_size_t(bank, position) == minus(size_t(length_of(bank)), position)

\* 1 + sizeof(position_t) + length + 1 with position_t = size_t
required_size_t(len) == plus(size_t(1 + SizeL + 1), len)

\* read_chunk(bank, position, &length, sizeof(position_t))
read_size_t(data, position) == [i \in 1..SizeL |-> data[position + i - 1]]

\* the capacity check of TxFlash::write: TRUE when write() returns false
write_rejects(len) ==
    LET r0 == remaining_size_t(BANK0, size_t(0))
        r1 == remaining_size_t(BANK1, size_t(0))
    IN less(IF less(r1, r0) THEN r1 ELSE r0, required_size_t(len))

\* bank contents for the wide engine: prefix from position 0, erased after
WideImage(e, prefix) ==
    [i \in 0..(WideLen - 1) |-> IF i < Len(prefix) THEN prefix[i + 1] ELSE e]

\* one empty record; one record of one byte; two records; a length of
\* 2^32 - 1 - SizeL; a length of 2^32 - 2 - SizeL, at position 0 and behind
\* a record; a length of 2^32 - 1; a length one byte too long for the bank
WideImages(e) ==
    LET R == (e + 1) % ByteMod
    IN { WideImage(e, <<R, 0, 0, 0, 0>>),
         WideImage(e, <<R, 1, 0, 0, 0, 7>>),
         WideImage(e, <<R, 0, 0, 0, 0, R, 0, 0, 0, 0>>),
         WideImage(e, <<R, 251, 255, 255, 255>>),
         WideImage(e, <<R, 250, 255, 255, 255>>),
         WideImage(e, <<R, 0, 0, 0, R, R, 250, 255, 255, 255>>),
         WideImage(e, <<R, 255, 255, 255, 255>>),
         WideImage(e, <<R, WideLen - SizeL - 1, 0, 0, 0>>) }

\* lengths handed to write(): small ones, the longest that fits, one more,
\* and the SizeL + 2 largest values of size_t
WideLengths ==
    { size_t(0), size_t(1), size_t(WideLen - SizeL - 2),
      size_t(WideLen - SizeL - 1) }
    \cup { minus(size_t(0), size_t(n)) : n \in 1..(SizeL + 2) }

InitWide ==
    \E e \in {0, 255} : \E i0 \in WideImages(e) \cup {WideImage(e, <<>>)} :
        \E i1 \in {WideImage(e, <<>>), WideImage(e, <<(e + 1) % ByteMod, 0, 0, 0, 0>>)} :
            /\ InitWith(e, i0, i1, <<>>)
            /\ i0 # i1

\* TxFlash::parse with position_t = size_t, up to the call of fast_forward
ParseWide ==
    /\ pc = "off"
    /\ LET sel == select(peek(bank0, 0), peek(bank1, 0))
           bank == IF sel = "BANK1" THEN BANK1 ELSE BANK0
       IN /\ m_read_bank' = bank /\ m_write_bank' = bank
          /\ boot' = [NoBoot EXCEPT !.h0 = peek(bank0, 0), !.h1 = peek(bank1, 0),
                                    !.scanned = sel,
                                    !.state = IF sel \in {"EMPTY", "INVALID"}
                                              THEN sel ELSE "none"]
          /\ pc' = IF sel \in {"EMPTY", "INVALID"} THEN "idle" ELSE "ff"
    /\ m_read_position' = size_t(0) /\ m_write_position' = size_t(0)
    /\ op' = "construct"
    /\ UNCHANGED <<flash, m_default_payload, k, payload, stack, result, log,
                   dest, pre, committed, newest, powerlosses, crashed>>

\* what read_chunk(bank, position, &header, 1) may give: the byte of the
\* bank, or any header when the position is outside the bank
headers_at(data, position) ==
    IF index(position) \in DOMAIN data THEN {data[index(position)]}
    ELSE {EMPTY, RECORD, SWITCH}

\* the end of a scan with the state returned
Scanned_size_t(state) ==
    /\ boot' = [boot EXCEPT !.state = state]
    /\ pc' = "idle"

\* one iteration of the loop of TxFlash::fast_forward, position_t = size_t
FastForwardIteration ==
    /\ pc = "ff"
    /\ k < MaxScan
    /\ k' = k + 1
    /\ LET data == data_of(m_read_bank)
           rem == remaining_size_t(m_read_bank, m_read_position)
       IN IF index(m_read_position) \notin DOMAIN data
          THEN \* the length is read from outside the bank: no defined result
               /\ \E state \in {"VALID", "INVALID"} : Scanned_size_t(state)
               /\ UNCHANGED <<m_read_position, m_write_position>>
          ELSE IF less(rem, size_t(1 + SizeL + 1))
          THEN Scanned_size_t("INVALID") /\ UNCHANGED <<m_read_position, m_write_position>>
          ELSE LET len == read_size_t(data, index(m_read_position) + 1)
                   next == plus(m_read_position, plus(size_t(1 + SizeL), len))
               IN IF less(rem, required_size_t(len))
                  THEN Scanned_size_t("INVALID")
                       /\ UNCHANGED <<m_read_position, m_write_position>>
                  ELSE /\ m_write_position' = next
                       /\ \E header \in headers_at(data, next) :
                            IF header = EMPTY
                            THEN Scanned_size_t("VALID") /\ UNCHANGED m_read_position
                            ELSE IF header # RECORD
                            THEN Scanned_size_t("INVALID") /\ UNCHANGED m_read_position
                            ELSE /\ m_read_position' = next
                                 /\ UNCHANGED <<pc, boot>>
    /\ UNCHANGED <<flash, m_default_payload, m_read_bank, m_write_bank, payload,
                   stack, op, result, log, dest, pre, committed, newest,
                   powerlosses, crashed>>

\* a caller invokes write(P, L): the capacity check at its head; payload
\* holds L, result whether write() returned false at the check
CapacityCheck ==
    /\ pc = "idle"
    /\ \E L \in WideLengths :
        /\ payload' = L
        /\ result' = IF write_rejects(L) THEN "false" ELSE "passed"
    /\ op' = "write"
    /\ UNCHANGED <<flash, m_default_payload, cursors, pc, k, stack, log, boot,
                   dest, pre, committed, newest, powerlosses, crashed>>

WideNext == ParseWide \/ FastForwardIteration \/ CapacityCheck

\* the scan and the capacity check of the engine over two Stm32f4FlashBank
SpecSizeT == InitWide /\ [][WideNext]_vars

\* the bytes a record of this length needs are more than avail
Exceeds(len, avail) ==
    avail < SizeL + 2 \/ less(size_t(avail - SizeL - 2), len)

\* the bytes left in the bank of the scan behind the read position
Avail == length_of(m_read_bank) - index(m_read_position)

\* C31: the size checks do not wrap: a write() whose length needs more than
\* the shorter bank holds returns false at the capacity check, and an
\* iteration of the scan on a length field that needs more than the bytes
\* left behind the read position returns INVALID
C31_NoWrapAround ==
    [][ /\ (CapacityCheck /\ Exceeds(payload', Min(Bank0Len, Bank1Len))
              => result' = "false")
        /\ (FastForwardIteration /\ index(m_read_position) \in DOMAIN data_of(m_read_bank)
              /\ Avail >= SizeL + 2
              /\ Exceeds(read_size_t(data_of(m_read_bank), index(m_read_position) + 1), Avail)
              => boot'.state = "INVALID") ]_vars

\* C32: every iteration of the loop of fast_forward returns or moves the read
\* position forward by at least 1 + sizeof(position_t), so the scan ends
C32_ScanProgress ==
    [][ FastForwardIteration =>
          \/ pc' = "idle"
          \/ /\ less(m_read_position, m_read_position')
             /\ ~less(m_read_position', plus(m_read_position, size_t(1 + SizeL))) ]_vars

\* C33: without power loss, from two erased banks and with a default that
\* fits, whenever no operation is running (after construction and after every
\* write() or reset() returned, with true or false) a recovery scan of the
\* banks as they are returns VALID and the four cursors the engine holds
C33_CursorsAgreeWithScan ==
    (pc = "idle" /\ Fits(m_default_payload)) =>
        /\ Recovered.state = "VALID"
        /\ Recovered.bank = m_read_bank
        /\ Recovered.bank = m_write_bank
        /\ Recovered.rp = m_read_position
        /\ Recovered.wp = m_write_position

\* a rejected write() has returned after a move to bank 1 and an append there
C33_Witness ==
    /\ pc = "idle" /\ Fits(m_default_payload)
    /\ op = "write" /\ result = "false"
    /\ m_read_bank = BANK1 /\ m_read_position > 0
    /\ Recovered.rp = m_read_position /\ Recovered.bank = BANK1

\* the bank the if/else chain of parse() would pick from the two headers now
Selected == select(peek(bank0, 0), peek(bank1, 0))

\* C34: whenever no operation is running, after any history of
\* constructions, writes, resets and power losses: if the read cursor is in
\* bank 0 then byte 0 of bank 1 is EMPTY, and a construction started now
\* picks no bank other than the one the read cursor is in
C34_ActiveBank0MeansBank1Erased ==
    pc = "idle" =>
        /\ m_read_bank = BANK0 => peek(bank1, 0) = EMPTY
        /\ Selected = "BANK0" => m_read_bank = BANK0
        /\ Selected = "BANK1" => m_read_bank = BANK1
        /\ Selected # "INVALID"

\* bank 0 is active again after a move to bank 1 and back, and power was lost
\* on the way
C34_Witness ==
    /\ pc = "idle" /\ m_read_bank = BANK0 /\ m_read_position = 0
    /\ op = "write" /\ result = "true" /\ Len(log) > 4
    /\ powerlosses > 0
    /\ peek(bank0, 0) = RECORD /\ peek(bank1, 0) = EMPTY

Generation ==
    {committed, m_default_payload}
        \cup (IF crashed = "write" THEN {pre.payload} ELSE {})

\* C36: after a power loss and the construction of a new engine read() never
\* gives the payload of a write older than the most recent write() that
\* returned true: it gives the most recent payload, the payload of a later
\* interrupted write, or the default
C36_NoRollback ==
    (pc = "idle" /\ op = "construct" /\ powerlosses > 0) => read \in Generation

\* the construction found byte 0 of both banks EMPTY and has returned
ConstructedOnEmpty == pc = "idle" /\ op = "construct" /\ boot.state = "EMPTY"

\* reset() has returned: called by the user, or by initialize() after a scan
\* that ended INVALID
ResetReturned ==
    pc = "idle" /\ (op = "reset" \/ (op = "construct" /\ boot.state = "INVALID"))

\* C37: with a default that needs more than the shorter bank holds, a
\* construction over empty flash issues no write_chunk and no erase and
\* leaves the cursors at (BANK0, 0); reset(), explicit or after an INVALID
\* scan, returns after exactly the two erases with both banks entirely E, so
\* with no RECORD header anywhere, and the cursors at (BANK0, 0)
C37_DefaultDoesNotFit ==
    (1 + sizeL + Len(m_default_payload) + 1 > Min(Bank0Len, Bank1Len)) =>
        /\ ConstructedOnEmpty =>
              /\ log = <<>>
              /\ cursors = <<BANK0, BANK0, 0, 0>>
              /\ result = "false"
        /\ ResetReturned =>
              /\ log = <<Erase(BANK0), Erase(BANK1)>>
              /\ bank0 = erased(BANK0) /\ bank1 = erased(BANK1)
              /\ \A i \in DOMAIN bank0 : bank0[i] # RECORD
              /\ \A i \in DOMAIN bank1 : bank1[i] # RECORD
              /\ cursors = <<BANK0, BANK0, 0, 0>>
              /\ result = "false"

\* an explicit reset() has returned with nothing stored; a record of a
\* write() in bank 1 was current when it was called
C37_Witness ==
    /\ ~ Fits(m_default_payload)
    /\ pc = "idle" /\ op = "reset"
    /\ pre.header = RECORD /\ pre.cursors[1] = BANK1 /\ Len(pre.rec) = 1
    /\ bank0 = erased(BANK0) /\ bank1 = erased(BANK1)

\* any bank contents at the first construction; writes and resets, no power
\* loss
SpecImages == Init /\ [][Step]_vars

\* C38: with a default that fits, whenever no operation is running after a
\* construction over any bank contents and any sequence of write() and
\* reset() without power loss, the byte at the read cursor is RECORD and the
\* record there ends, with the byte behind it, inside the bank, so read()
\* copies only bytes of the bank
C38_ReadableRecord ==
    (pc = "idle" /\ Fits(m_default_payload)) =>
        /\ CurrentHeader = RECORD
        /\ length >= 0
        /\ m_read_position + 1 + sizeL + length + 1 <= length_of(m_read_bank)
        /\ read # <<-1>>
        /\ Len(read) = length

\* the construction found a record in bank 1 among other bytes in bank 0 and
\* a write() was appended behind it
C38_Witness ==
    /\ pc = "idle" /\ Fits(m_default_payload)
    /\ op = "write" /\ result = "true"
    /\ m_read_bank = BANK1 /\ m_read_position > 0
    /\ bank0 # erased(BANK0) /\ peek(bank0, 0) = EMPTY
    /\ CurrentHeader = RECORD /\ length = 0
====
